---------------------------- MODULE Spec2Model ----------------------------
(***************************************************************************)
(* State-machine model of two components of the React package:            *)
(*   - Slider (class component, src/unnamed/part_006 lines 955-2212)       *)
(*   - FilterableMultiSelect (function component, part_006 lines 1-953)    *)
(*                                                                         *)
(* JavaScript values are modelled as typed records [t, n]: t is the        *)
(* result of typeof ("number", "string", "undefined") or "NaN", n the      *)
(* number (0 when there is none).  The only string the text input          *)
(* produces here is the empty string, which an <input type="number">       *)
(* reports for any text that is not a number.                              *)
(*                                                                         *)
(* The thumb offsets left, leftLower, leftUpper are percentages in the     *)
(* code: left = 100 * k / range for an integer k.  The model stores k      *)
(* (the offset in value units), which is exact, and NaN where the code     *)
(* divides 0 by 0 (range = 0).                                             *)
(***************************************************************************)
EXTENDS Integers, Sequences, FiniteSets, TLC

VARIABLES
    props,            \* this.props of the Slider
    state,            \* this.state of the Slider
    phase,            \* "constructed" | "mounted" | "unmounted"
    listeners,        \* event types registered on element.ownerDocument
    throttleOpen,     \* lodash.throttle: TRUE when the next onDrag call runs
    ignored,          \* history: the last event met the disabled/readOnly guard
    onChangeCalls,    \* props.onChange calls made by the last event
    onReleaseCalls,   \* props.onRelease calls made by the last event
    \* FilterableMultiSelect
    open,                  \* the open prop
    isOpen,                \* useState(!!open)
    prevOpen,              \* useState(!!open)
    inputValue,            \* useState(''), as a sequence of characters
    topItems,              \* useState(initialSelectedItems)
    currentSelectedItems,  \* useState(initialSelectedItems)
    onMenuChangeCalls,     \* arguments of the onMenuChange calls of the last event
    \* DOMTokenList.prototype.toggle
    classList,        \* the tokens of a DOMTokenList, in order
    lastArguments,    \* the arguments of the last toggle call, <<>> before it
    toggleResult      \* <<its return value>>, <<>> before it

sliderVars == <<props, state, phase, listeners, throttleOpen, ignored,
                onChangeCalls, onReleaseCalls>>

fmsVars == <<open, isOpen, prevOpen, inputValue, topItems,
             currentSelectedItems, onMenuChangeCalls>>

toggleVars == <<classList, lastArguments, toggleResult>>

vars == <<sliderVars, fmsVars, toggleVars>>

----------------------------------------------------------------------------
(* Bounds of the model *)

\* min is -Span, 0 or Span and max - min is 2 * Span or 0
Span == 1
\* boundingRect.left of the slider element
RectLeft == 1
\* boundingRect.right - boundingRect.left
RectWidth == 3

(* Program constants *)

DefaultStep == 1
DefaultStepMultiplier == 4

DRAG_EVENT_TYPES == {"mousemove", "touchmove"}
DRAG_STOP_EVENT_TYPES == {"mouseup", "touchend", "touchcancel"}

----------------------------------------------------------------------------
(* JavaScript values *)

Num(n) == [t |-> "number", n |-> n]
EmptyStr == [t |-> "string", n |-> 0]
Undef == [t |-> "undefined", n |-> 0]
NaN == [t |-> "NaN", n |-> 0]

IsNum(v) == v.t = "number"
\* ToBoolean: 0, NaN, "" and undefined are falsy
Truthy(v) == v.t = "number" /\ v.n # 0

MinOf(a, b) == IF a <= b THEN a ELSE b
MaxOf(a, b) == IF a >= b THEN a ELSE b

\* Math.round(p / q) for q > 0: halves round up
Round(p, q) == (2 * p + q) \div (2 * q)

\* Math.floor(p / q) * q for q > 0
FloorTo(p, q) == (p \div q) * q


----------------------------------------------------------------------------
(* Slider: pure helpers *)

Range(p) == p.max - p.min

\* clamp(val, min, max): Math.max(min, Math.min(val, max))
Clamp(val, min, max) == MaxOf(min, MinOf(val, max))

\* calcLeftPercent as the fraction <<numerator, denominator>>
CalcLeftPercent(p, clientX, value) ==
    IF Truthy(clientX)
    THEN <<clientX.n - RectLeft, RectWidth>>
    ELSE IF Truthy(value) /\ Range(p) # 0
         THEN <<value.n - p.min, Range(p)>>
         ELSE <<0, 1>>

\* calcSteppedValuePercent without its clamp of the stepped value: C1 does
\* not hold of it
CalcSteppedValuePercentUnclamped(p, leftPercent) ==
    LET range == Range(p)
        steppedValue == Round(leftPercent[1] * range, leftPercent[2] * p.step) * p.step
        steppedPercent == IF range = 0 THEN NaN ELSE Num(Clamp(steppedValue, 0, range))
    IN  <<Num(steppedValue + p.min), steppedPercent>>

\* calcSteppedValuePercent: <<steppedValue, steppedPercent>>, the percent in
\* value units; clamp(0 / 0, 0, 1) is NaN
CalcSteppedValuePercent(p, leftPercent) ==
    LET range == Range(p)
        \* Math.round(leftPercent * totalSteps) * step, totalSteps = range / step
        steppedValue == Round(leftPercent[1] * range, leftPercent[2] * p.step) * p.step
        steppedPercent == IF range = 0 THEN NaN ELSE Num(Clamp(steppedValue, 0, range))
    IN  <<Num(Clamp(steppedValue + p.min, p.min, p.max)), steppedPercent>>

\* Math.min(1, Math.max(0, leftPercent)) * 100, in value units
RawLeft(p, leftPercent) ==
    IF leftPercent[1] <= 0 THEN 0
    ELSE IF leftPercent[1] >= leftPercent[2] THEN Range(p)
    ELSE (leftPercent[1] * Range(p)) \div leftPercent[2]

\* calcValue({ clientX, value, useRawValue }): [value, left]
CalcValue(p, clientX, value, useRawValue) ==
    LET leftPercent == CalcLeftPercent(p, clientX, value)
        stepped == CalcSteppedValuePercent(p, leftPercent)
    IN  IF useRawValue
        THEN [value |-> value, left |-> Num(RawLeft(p, leftPercent))]
        ELSE [value |-> stepped[1], left |-> stepped[2]]

Abs(x) == IF x < 0 THEN -x ELSE x

\* calcDistanceToHandle, multiplied by range (by 1 when range = 0);
\* NaN when the handle's left is NaN
CalcDistanceToHandle(p, s, handle, clientX) ==
    LET left == IF handle = "lower" THEN s.leftLower ELSE s.leftUpper
        sc == IF Range(p) = 0 THEN 1 ELSE Range(p)
    IN  IF ~IsNum(left) \/ ~IsNum(clientX) THEN NaN
        ELSE Num(Abs(RectLeft * sc + left.n * RectWidth - clientX.n * sc))

\* calcValueForDelta(currentValue, delta, step).  For delta < 0 and the
\* current value "" the code concatenates: "" + -d is the string "-d",
\* which every later use (value && range, value - min) reads as the number
\* -d; an undefined current value gives NaN.
CalcValueForDelta(currentValue, delta, step) ==
    IF currentValue.t \in {"undefined", "NaN"} THEN NaN
    ELSE Num((IF delta > 0 THEN FloorTo(currentValue.n, step) ELSE currentValue.n)
             + delta)

\* setStateForHandle(handle, { value, left }): the state after its setState
SetStateForHandle(s, handle, value, left) ==
    IF handle = "lower"
    THEN LET beyond == Truthy(s.valueUpper) /\ value.n > s.valueUpper.n
         IN  [s EXCEPT !.valueLower = IF beyond THEN s.valueUpper ELSE value,
                       !.leftLower = IF beyond THEN s.leftUpper ELSE left,
                       !.isValid = TRUE]
    ELSE LET beyond == Truthy(s.valueLower) /\ value.n < s.valueLower.n
         IN  [s EXCEPT !.valueUpper = IF beyond THEN s.valueLower ELSE value,
                       !.leftUpper = IF beyond THEN s.leftLower ELSE left,
                       !.isValid = TRUE]

\* getDerivedStateFromProps without its second branch: C8 does not hold of it
GetDerivedStateFromPropsTrueOnly(p, s) ==
    IF p.invalid = "true" /\ s.isValid = TRUE THEN [s EXCEPT !.isValid = FALSE]
    ELSE s

\* static getDerivedStateFromProps(props, state), merged into the state
GetDerivedStateFromProps(p, s) ==
    IF p.invalid = "true" /\ s.isValid = TRUE THEN [s EXCEPT !.isValid = FALSE]
    ELSE IF p.invalid = "false" /\ s.isValid = FALSE THEN [s EXCEPT !.isValid = TRUE]
    ELSE s

\* a guard that leaves readOnly out: C7 does not hold of it
IsInertDisabledOnly(p) == p.disabled

\* the guard "Do nothing if component is disabled"
IsInert(p) == p.disabled \/ p.readOnly

----------------------------------------------------------------------------
(* Slider: the update cycle of React for this component *)

\* componentDidUpdate(prevProps, prevState) with this.props = p and
\* this.state = s: the callbacks it fires and the state its setState calls
\* ask for (next = s when it calls none)
ComponentDidUpdate(prevProps, prevState, p, s) ==
    LET changed == \/ prevState.value # s.value
                   \/ prevState.valueLower # s.valueLower
                   \/ prevState.valueUpper # s.valueUpper
        fireChange == changed /\ p.hasOnChange
        fireRelease == s.needsOnRelease /\ p.hasOnRelease
        s1 == IF fireRelease THEN [s EXCEPT !.needsOnRelease = FALSE] ELSE s
        same == /\ prevProps.value = p.value
                /\ prevProps.valueLower = p.valueLower
                /\ prevProps.valueUpper = p.valueUpper
                /\ prevProps.max = p.max
                /\ prevProps.min = p.min
        sync == CalcValue(p, Undef, p.value, TRUE)
    IN  [onChange |-> IF fireChange
                      THEN <<[value |-> s.value, valueLower |-> s.valueLower,
                              valueUpper |-> s.valueUpper]>>
                      ELSE <<>>,
         onRelease |-> IF fireRelease THEN <<[value |-> s.value]>> ELSE <<>>,
         next |-> IF same THEN s1
                  ELSE [s1 EXCEPT !.value = sync.value, !.left = sync.left]]

\* One update of the component: getDerivedStateFromProps, the PureComponent
\* shallow comparison, render, componentDidUpdate and the updates its
\* setState calls start in turn.
RECURSIVE Commit(_, _, _, _)
Commit(prevProps, prevState, p, pending) ==
    LET s == GetDerivedStateFromProps(p, pending)
    IN  IF p = prevProps /\ s = prevState
        THEN [state |-> s, onChange |-> <<>>, onRelease |-> <<>>]
        ELSE LET u == ComponentDidUpdate(prevProps, prevState, p, s)
                 rest == Commit(p, s, p, u.next)
             IN  [state |-> rest.state,
                  onChange |-> u.onChange \o rest.onChange,
                  onRelease |-> u.onRelease \o rest.onRelease]


----------------------------------------------------------------------------
(* Slider: inputs *)

\* <<min, max>> with min <= max: a range around 0, one starting at 0, an
\* empty one
MinMaxPairs == {<<-Span, Span>>, <<0, 2 * Span>>, <<Span, Span>>}

\* the step prop of a one-handle slider
Steps == {DefaultStep, 2 * Span}

\* numbers a parent passes as the value prop: inside and above [min, max]
PropValues(min, max) == {min, max + 1}

\* numbers a user types into a text input: 0 and one above max
TextNumbers(min, max) == {0, max + 1}

\* clientX of a mouse or touch event: left of, on and right of the slider
ClientXs == 0..(RectLeft + RectWidth + 1)

Keys == {"ArrowDown", "ArrowLeft", "ArrowUp", "ArrowRight", "Enter"}

Tristate == {"true", "false", "undefined"}

\* a slider with one handle: valueLower and valueUpper are not passed
OneHandleProps ==
    UNION {
      {[min |-> mm[1], max |-> mm[2], step |-> st,
        stepMultiplier |-> DefaultStepMultiplier,
        value |-> Num(v), valueLower |-> Undef, valueUpper |-> Undef,
        twoHandles |-> FALSE, disabled |-> dis, readOnly |-> ro,
        invalid |-> inv, hasOnChange |-> TRUE, hasOnRelease |-> orl] :
          st \in Steps, v \in PropValues(mm[1], mm[2]),
          dis \in BOOLEAN, ro \in BOOLEAN, inv \in Tristate, orl \in BOOLEAN}
      : mm \in MinMaxPairs}

\* a range slider with two handles and three stops (-Span, 0, Span),
\* starting from valueLower <= valueUpper
TwoHandleProps ==
    {[min |-> -Span, max |-> Span, step |-> Span,
      stepMultiplier |-> DefaultStepMultiplier,
      value |-> Num(v), valueLower |-> Num(lu[1]), valueUpper |-> Num(lu[2]),
      twoHandles |-> TRUE, disabled |-> dis, readOnly |-> ro,
      invalid |-> inv, hasOnChange |-> TRUE, hasOnRelease |-> TRUE] :
        v \in {-Span}, lu \in {<<-Span, Span>>, <<0, 0>>},
        dis \in BOOLEAN, ro \in BOOLEAN, inv \in Tristate}

InitProps == OneHandleProps \cup TwoHandleProps


----------------------------------------------------------------------------
(* Slider: construction and lifecycle *)

\* the state field initialisers of the class
InitialState(p) ==
    [value |-> p.value, valueLower |-> p.valueLower, valueUpper |-> p.valueUpper,
     left |-> Num(0), leftLower |-> Num(0), leftUpper |-> Num(0),
     needsOnRelease |-> FALSE, isValid |-> TRUE, activeHandle |-> "null"]

\* no DOMTokenList is toggled
NoClassList ==
    classList = <<>> /\ lastArguments = <<>> /\ toggleResult = <<>>

\* no FilterableMultiSelect is rendered next to the Slider
NoMultiSelect ==
    /\ open = FALSE /\ isOpen = FALSE /\ prevOpen = FALSE
    /\ inputValue = <<>> /\ topItems = {} /\ currentSelectedItems = {}
    /\ onMenuChangeCalls = <<>>

Init ==
    /\ props \in InitProps
    /\ state = InitialState(props)
    /\ phase = "constructed"
    /\ listeners = {}
    /\ throttleOpen = TRUE
    /\ ignored = FALSE
    /\ onChangeCalls = <<>>
    /\ onReleaseCalls = <<>>
    /\ NoMultiSelect
    /\ NoClassList

\* Applies the state an event handler asked for (pending) through the
\* update cycle and records the callbacks fired
Update(prevProps, prevState, p, pending) ==
    LET c == Commit(prevProps, prevState, p, pending)
    IN  /\ state' = c.state
        /\ onChangeCalls' = c.onChange
        /\ onReleaseCalls' = c.onRelease
        /\ UNCHANGED <<fmsVars, toggleVars>>

NoUpdate == /\ state' = state
            /\ onChangeCalls' = <<>>
            /\ onReleaseCalls' = <<>>
            /\ UNCHANGED <<fmsVars, toggleVars>>

\* first render (getDerivedStateFromProps included) and componentDidMount
ComponentDidMount ==
    /\ phase = "constructed"
    /\ phase' = "mounted"
    /\ ignored' = FALSE
    /\ LET s0 == GetDerivedStateFromProps(props, state)
           lower == CalcValue(props, Undef, s0.valueLower, TRUE)
           upper == CalcValue(props, Undef, s0.valueUpper, TRUE)
           single == CalcValue(props, Undef, s0.value, TRUE)
           pending == IF props.twoHandles
                      THEN [s0 EXCEPT !.valueLower = lower.value,
                                      !.leftLower = lower.left,
                                      !.valueUpper = upper.value,
                                      !.leftUpper = upper.left]
                      ELSE [s0 EXCEPT !.value = single.value, !.left = single.left]
       IN  Update(props, s0, props, pending)
    /\ UNCHANGED <<props, listeners, throttleOpen>>

\* The class has no componentWillUnmount: unmounting runs the ref callback
\* with null (this.element = null) and nothing else.
Unmount ==
    /\ phase = "mounted"
    /\ phase' = "unmounted"
    /\ ignored' = FALSE
    /\ NoUpdate
    /\ UNCHANGED <<props, listeners, throttleOpen>>

\* The parent renders the Slider again with other props: another value for
\* a one-handle slider ("The single value when twoHandles is not set"), or
\* disabled switched.
PropsChange ==
    /\ phase = "mounted"
    /\ \E np \in {[props EXCEPT !.value = Num(v)] :
                      v \in IF props.twoHandles THEN {}
                            ELSE PropValues(props.min, props.max)}
              \cup {[props EXCEPT !.disabled = ~props.disabled]} :
          /\ np # props
          /\ props' = np
          /\ Update(props, state, np, state)
    /\ ignored' = FALSE
    /\ UNCHANGED <<phase, listeners, throttleOpen>>

----------------------------------------------------------------------------
(* Slider: event handlers *)

\* _onDrag(evt, activeHandle) past its guards: the state its setState asks
\* for, written over base (the updates already batched in this handler)
OnDragPending(base, clientX, handleArg) ==
    LET activeHandle == IF handleArg \in {"lower", "upper"}
                        THEN handleArg ELSE state.activeHandle
        calc == CalcValue(props, clientX, state.value, FALSE)
    IN  IF props.twoHandles /\ activeHandle \in {"lower", "upper"}
        THEN SetStateForHandle(base, activeHandle, calc.value, calc.left)
        ELSE [base EXCEPT !.value = calc.value, !.left = calc.left,
                          !.isValid = TRUE]

\* onDragStart: mousedown or touchstart on the slider element
OnDragStart ==
    /\ phase = "mounted"
    /\ ignored' = IsInert(props)
    /\ UNCHANGED <<props, phase>>
    /\ \E cx \in ClientXs :
        LET clientX == Num(cx)
            distanceToLower == CalcDistanceToHandle(props, state, "lower", clientX)
            distanceToUpper == CalcDistanceToHandle(props, state, "upper", clientX)
            activeHandle ==
                IF props.twoHandles
                THEN IF /\ IsNum(distanceToLower) /\ IsNum(distanceToUpper)
                        /\ distanceToLower.n <= distanceToUpper.n
                     THEN "lower" ELSE "upper"
                ELSE "undefined"
            s1 == [state EXCEPT !.activeHandle = activeHandle]
        IN  IF IsInert(props)
            THEN NoUpdate /\ UNCHANGED <<listeners, throttleOpen>>
            ELSE /\ listeners' = listeners \cup DRAG_STOP_EVENT_TYPES
                                           \cup DRAG_EVENT_TYPES
                 /\ throttleOpen' = FALSE
                 /\ Update(props, state, props,
                           IF throttleOpen
                           THEN OnDragPending(s1, clientX, activeHandle)
                           ELSE s1)

\* onDrag: mousemove or touchmove on the owner document, throttled
OnDrag ==
    /\ listeners \cap DRAG_EVENT_TYPES # {}
    /\ ignored' = (throttleOpen /\ IsInert(props))
    /\ UNCHANGED <<props, phase, listeners>>
    /\ throttleOpen' = FALSE
    /\ \E cx \in ClientXs :
        IF throttleOpen /\ ~IsInert(props) /\ phase = "mounted"
        THEN Update(props, state, props, OnDragPending(state, Num(cx), "null"))
        ELSE NoUpdate

\* EVENT_THROTTLE milliseconds pass since the last onDrag that ran
ThrottleElapse ==
    /\ ~throttleOpen
    /\ throttleOpen' = TRUE
    /\ ignored' = FALSE
    /\ NoUpdate
    /\ UNCHANGED <<props, phase, listeners>>

\* a drag stop that does not set needsOnRelease: C6 does not hold of it
DragStopStateUnflagged(s) ==
    [s EXCEPT !.isValid = TRUE, !.activeHandle = "null"]

\* the setState of onDragStop: "Set needsOnRelease flag so event fires on
\* next update. Also unset the activeHandle."
DragStopState(s) ==
    [s EXCEPT !.needsOnRelease = TRUE, !.isValid = TRUE, !.activeHandle = "null"]

\* onDragStop: mouseup, touchend or touchcancel on the owner document.
\* After an unmount this.element is null: nothing is removed, and setState
\* on the unmounted component does nothing.
OnDragStop ==
    /\ listeners \cap DRAG_STOP_EVENT_TYPES # {}
    /\ ignored' = IsInert(props)
    /\ UNCHANGED <<props, phase, throttleOpen>>
    /\ IF IsInert(props)
       THEN NoUpdate /\ UNCHANGED listeners
       ELSE IF phase = "mounted"
            THEN /\ listeners' = (listeners \ DRAG_STOP_EVENT_TYPES)
                                           \ DRAG_EVENT_TYPES
                 /\ Update(props, state, props, DragStopState(state))
            ELSE NoUpdate /\ UNCHANGED listeners

\* the delta onKeyDown computes; 0 for "Ignore keys we don't want to handle"
KeyDelta(p, key, shiftKey) ==
    LET delta == IF key \in {"ArrowDown", "ArrowLeft"} THEN -p.step
                 ELSE IF key \in {"ArrowUp", "ArrowRight"} THEN p.step
                 ELSE 0
    IN  IF shiftKey THEN delta * p.stepMultiplier ELSE delta

\* onKeyDown on the slider element, for one key
KeyDownWith(key, shiftKey) ==
    /\ phase = "mounted"
    /\ ignored' = IsInert(props)
    /\ UNCHANGED <<props, phase, listeners, throttleOpen>>
    /\ LET delta == KeyDelta(props, key, shiftKey)
           handle == state.activeHandle
           currentValue == IF handle = "lower" THEN state.valueLower
                           ELSE state.valueUpper
           two == CalcValue(props, Undef,
                            CalcValueForDelta(currentValue, delta, props.step),
                            FALSE)
           one == CalcValue(props, Undef,
                            CalcValueForDelta(state.value, delta, props.step),
                            FALSE)
       IN  IF IsInert(props) \/ delta = 0
           THEN NoUpdate
           ELSE IF props.twoHandles /\ handle \in {"lower", "upper"}
                THEN Update(props, state, props,
                            SetStateForHandle(state, handle, two.value, two.left))
                ELSE Update(props, state, props,
                            [state EXCEPT !.value = one.value,
                                          !.left = one.left,
                                          !.isValid = TRUE])

OnKeyDown == \E key \in Keys, shiftKey \in BOOLEAN : KeyDownWith(key, shiftKey)

\* onChange of a text input: the lower input of a two-handle slider carries
\* data-handle-position "lower", the other input "upper"; the input of a
\* one-handle slider carries none, and the handler falls back to LOWER
OnChange ==
    /\ phase = "mounted"
    /\ ignored' = IsInert(props)
    /\ UNCHANGED <<props, phase, listeners, throttleOpen>>
    /\ \E text \in {Num(n) : n \in TextNumbers(props.min, props.max)}
                       \cup {EmptyStr},
          position \in IF props.twoHandles THEN {"lower", "upper"} ELSE {"lower"} :
        LET calc == CalcValue(props, Undef, text, TRUE)
        IN  IF IsInert(props)
            THEN NoUpdate
            ELSE IF ~IsNum(text)
                 THEN Update(props, state, props,
                        IF props.twoHandles /\ position = "lower"
                        THEN [state EXCEPT !.valueLower = text]
                        ELSE IF props.twoHandles /\ position = "upper"
                             THEN [state EXCEPT !.valueUpper = text]
                             ELSE [state EXCEPT !.value = text])
                 ELSE Update(props, state, props,
                        IF props.twoHandles
                        THEN SetStateForHandle(state, position, calc.value, calc.left)
                        ELSE [state EXCEPT !.value = calc.value,
                                           !.left = calc.left])

\* onBlur of a text input; validity is evt.target.checkValidity()
BlurWith(validity) ==
    /\ phase = "mounted"
    /\ ignored' = FALSE
    /\ UNCHANGED <<props, phase, listeners, throttleOpen>>
    /\ Update(props, state, props, [state EXCEPT !.isValid = validity])

OnBlur == \E validity \in BOOLEAN : BlurWith(validity)

\* onFocus of a thumb; the upper thumb exists with twoHandles only
OnFocus ==
    /\ phase = "mounted"
    /\ ignored' = FALSE
    /\ UNCHANGED <<props, phase, listeners, throttleOpen>>
    /\ \E handle \in IF props.twoHandles THEN {"lower", "upper"} ELSE {"lower"} :
        Update(props, state, props, [state EXCEPT !.activeHandle = handle])

Next ==
    \/ ComponentDidMount
    \/ Unmount
    \/ PropsChange
    \/ OnDragStart
    \/ OnDrag
    \/ ThrottleElapse
    \/ OnDragStop
    \/ OnKeyDown
    \/ OnChange
    \/ OnBlur
    \/ OnFocus

Spec == Init /\ [][Next]_vars

----------------------------------------------------------------------------
(* Slider: claims *)

InRange(v) == IsNum(v) /\ props.min <= v.n /\ v.n <= props.max

\* C1, as claimed: the state.value of a rendered Slider with min <= max is
\* a number with min <= value <= max, whatever operations came before.
C1_ValueClamped ==
    phase # "constructed" /\ props.min <= props.max => InRange(state.value)

\* C1, amended: only drags and arrow keys clamp.  Whenever onDragStart,
\* onDrag or onKeyDown changes state.value, the new value is a number with
\* min <= value <= max.
C1_DragAndKeysClamp ==
    [][state'.value # state.value
           => InRange(state'.value) \/ ~(OnDragStart \/ OnDrag \/ OnKeyDown)]_vars

\* C1 witness: a one-handle slider whose last event changed the value to
\* max.  The text input offers 0 and max + 1 and the parent min and
\* max + 1, so with 0 < max and min < max only a drag or an arrow key sets
\* max.
C1_Witness ==
    /\ phase = "mounted" /\ ~props.twoHandles
    /\ props.min < props.max /\ 0 < props.max
    /\ state.value = Num(props.max)
    /\ onChangeCalls # <<>>

\* C2, as claimed: once the Slider is unmounted, none of the drag and
\* drag-stop listeners of onDragStart is registered on the owner document.
C2_UnboundOnUnmount == phase = "unmounted" => listeners = {}

\* C3, as claimed: in two-handle mode, starting from valueLower <=
\* valueUpper, valueLower <= valueUpper holds after any drag, arrow key and
\* text input ("" compares as 0).
C3_LowerNotAboveUpper ==
    props.twoHandles /\ phase = "mounted"
        => state.valueLower.n <= state.valueUpper.n

\* C4, as claimed: Shift + arrow key moves the value of an enabled
\* one-handle slider by (max - min) / stepMultiplier before clamping to
\* [min, max]; stated times stepMultiplier, and allowing the result to be
\* rounded to a stop less than one step away.
C4_ShiftStepIsRangeFraction ==
    [][\A key \in Keys \ {"Enter"} :
          /\ ~props.twoHandles /\ ~props.disabled /\ ~props.readOnly
          /\ IsNum(state.value) /\ props.min < props.max
          /\ KeyDownWith(key, TRUE)
          => LET m == props.stepMultiplier
                 target == m * state.value.n
                           + (IF key \in {"ArrowUp", "ArrowRight"} THEN 1 ELSE -1)
                             * Range(props)
                 clamped == Clamp(target, m * props.min, m * props.max)
             IN  /\ IsNum(state'.value)
                 /\ Abs(m * state'.value.n - clamped) < m * props.step]_vars

\* the values a handle shows in an onChange call are numbers
UsableCall(c) ==
    IF props.twoHandles THEN IsNum(c.valueLower) /\ IsNum(c.valueUpper)
    ELSE IsNum(c.value)

\* C5, as claimed: an update calls props.onChange only when value,
\* valueLower or valueUpper changed and every value it passes is a number.
C5_OnChangeOnlyUsableChange ==
    [][onChangeCalls' # <<>>
          => /\ \/ state'.value # state.value
                \/ state'.valueLower # state.valueLower
                \/ state'.valueUpper # state.valueUpper
             /\ \A i \in 1..Len(onChangeCalls') : UsableCall(onChangeCalls'[i])]_vars

\* C6: on a mounted, enabled Slider with an onRelease prop every drag stop
\* makes exactly one onRelease call, with the state.value the Slider then
\* has, and leaves needsOnRelease false; and only a drag stop makes an
\* onRelease call.
C6_OneReleasePerDragStop ==
    [][/\ onReleaseCalls' # <<>>
          => /\ onReleaseCalls' = <<[value |-> state'.value]>>
             /\ ~state'.needsOnRelease
             /\ OnDragStop
       /\ (/\ phase = "mounted" /\ props.hasOnRelease
           /\ ~props.disabled /\ ~props.readOnly
           /\ OnDragStop)
          => onReleaseCalls' # <<>>]_vars

\* C6 witness: a drag stop has called onRelease with the value a drag set
\* before it
C6_Witness ==
    /\ onReleaseCalls = <<[value |-> state.value]>>
    /\ ~state.needsOnRelease
    /\ listeners = {}
    /\ state.left # Num(0)

\* C7: while disabled or readOnly is true, onDragStart, onDrag, onDragStop,
\* onKeyDown and the text input's onChange change none of value,
\* valueLower, valueUpper, left, leftLower, leftUpper and needsOnRelease
\* and add no document listener.
C7_InertWhileDisabled ==
    [][(props.disabled \/ props.readOnly)
          /\ (OnDragStart \/ OnDrag \/ OnDragStop \/ OnKeyDown \/ OnChange)
          => /\ state'.value = state.value
             /\ state'.valueLower = state.valueLower
             /\ state'.valueUpper = state.valueUpper
             /\ state'.left = state.left
             /\ state'.leftLower = state.leftLower
             /\ state'.leftUpper = state.leftUpper
             /\ state'.needsOnRelease = state.needsOnRelease
             /\ listeners' \subseteq listeners]_vars

\* C7 witness: a slider that was disabled in the middle of a drag, away
\* from its initial position, has refused an event at its guard
C7_Witness ==
    /\ phase = "mounted" /\ ignored
    /\ props.disabled /\ ~props.readOnly
    /\ listeners # {}
    /\ state.left # Num(0)

\* C8: in every rendered state invalid = true gives isValid = false and
\* invalid = false gives isValid = true; without an invalid prop a blur
\* leaves isValid at the validity it reports and a drag stop of an enabled
\* slider leaves it true.
C8_InvalidPropOverrides ==
    /\ [](phase # "constructed"
            => /\ props.invalid = "true" => state.isValid = FALSE
               /\ props.invalid = "false" => state.isValid = TRUE)
    /\ [][props.invalid = "undefined"
            => /\ \A v \in BOOLEAN : BlurWith(v) => state'.isValid = v
               /\ (/\ phase = "mounted" /\ ~props.disabled /\ ~props.readOnly
                   /\ OnDragStop)
                    => state'.isValid = TRUE]_vars

\* C8 witness: a drag stop, which sets isValid true, has just run (it made
\* the onRelease call) on a slider with invalid = true, and isValid is false
C8_Witness ==
    /\ phase = "mounted"
    /\ props.invalid = "true"
    /\ state.isValid = FALSE
    /\ onReleaseCalls # <<>>

----------------------------------------------------------------------------
(* FilterableMultiSelect *)

\* the items prop is 1..NumItems
NumItems == 2
\* the longest text typed into the input
MaxInputLen == 2

Items == 1..NumItems

\* texts of the input: "", "a", "aa", ...
InputTexts == {[i \in 1..n |-> "a"] : n \in 0..MaxInputLen}

InputKeys == {"Enter", "Delete", "Escape", "Tab", "Space"}

StateChangeTypes == {"keyDownArrowDown", "keyDownArrowUp", "keyDownEscape",
                     "changeInput", "keyDownEnter"}

\* no Slider is rendered next to the FilterableMultiSelect
NoSlider ==
    /\ props = <<>> /\ state = <<>> /\ phase = "absent"
    /\ listeners = {} /\ throttleOpen = TRUE /\ ignored = FALSE
    /\ onChangeCalls = <<>> /\ onReleaseCalls = <<>>

\* the useState initialisers of the first render, for an open prop and an
\* initialSelectedItems prop; the effect of the first render sets topItems
\* to the same items
InitFMS ==
    /\ NoSlider
    /\ NoClassList
    /\ open \in BOOLEAN
    /\ isOpen = open
    /\ prevOpen = open
    /\ inputValue = <<>>
    /\ \E initialSelectedItems \in SUBSET Items :
          /\ topItems = initialSelectedItems
          /\ currentSelectedItems = initialSelectedItems
    /\ onMenuChangeCalls = <<>>

\* the effect of a render that leaves the menu open whatever happened: C9
\* does not hold of it
UseEffectTopItemsAlways(prevSelected, prevIsOpen, selected, nowOpen, top) ==
    IF selected # prevSelected \/ nowOpen # prevIsOpen THEN selected ELSE top

\* useEffect(() => { if (!isOpen) setTopItems(currentSelectedItems) },
\* [currentSelectedItems, isOpen, setTopItems]): topItems after the effect
\* of a render with (selected, nowOpen) that follows one with
\* (prevSelected, prevIsOpen)
UseEffectTopItems(prevSelected, prevIsOpen, selected, nowOpen, top) ==
    IF (selected # prevSelected \/ nowOpen # prevIsOpen) /\ ~nowOpen
    THEN selected ELSE top

\* a render that never resets isOpen to the open prop: C11 does not hold
\* of it
RenderedIsOpenKept(previousOpen, openProp, nextIsOpen) == nextIsOpen

\* isOpen after the render-time reset "if (prevOpen !== open) {
\* setIsOpen(open); setPrevOpen(open) }"
RenderedIsOpen(previousOpen, openProp, nextIsOpen) ==
    IF previousOpen # openProp THEN openProp ELSE nextIsOpen

\* The render that follows an event: the state the handlers asked for, the
\* render-time reset of isOpen, and the effect.
Render(openProp, nextIsOpen, nextInputValue, nextSelectedItems, calls) ==
    LET nowOpen == RenderedIsOpen(prevOpen, openProp, nextIsOpen)
    IN  /\ open' = openProp
        /\ prevOpen' = openProp
        /\ isOpen' = nowOpen
        /\ inputValue' = nextInputValue
        /\ currentSelectedItems' = nextSelectedItems
        /\ topItems' = UseEffectTopItems(currentSelectedItems, isOpen,
                                         nextSelectedItems, nowOpen, topItems)
        /\ onMenuChangeCalls' = calls
        /\ UNCHANGED <<sliderVars, toggleVars>>

\* handleOnMenuChange(forceIsOpen): nextIsOpen = forceIsOpen ?? !isOpen, for
\* the arguments of the call, <<>> or <<forceIsOpen>>
NextIsOpen(arguments) ==
    IF arguments = <<>> THEN ~isOpen ELSE arguments[1]

\* clearInputValue(event): the text it sets
ClearedInputValue(isEscape) ==
    IF Len(inputValue) = 1 \/ isEscape THEN <<>> ELSE inputValue

\* the selectedItems option of sortItems in the menu render
SortSelectedItems(selectionFeedback) ==
    CASE selectionFeedback = "top" -> currentSelectedItems
      [] selectionFeedback = "fixed" -> {}
      [] selectionFeedback = "top-after-reopen" -> topItems

\* the parent renders the component again with another open prop
OpenPropChange ==
    /\ phase = "absent"
    /\ Render(~open, isOpen, inputValue, currentSelectedItems, <<>>)

\* handleOnChange(changes): Selection reports the selection after an item
\* was selected or deselected
HandleOnChange ==
    /\ phase = "absent"
    /\ \E selectedItems \in SUBSET Items :
          Render(open, isOpen, inputValue, selectedItems, <<>>)

\* onClick of the input: handleOnMenuChange(true)
InputOnClick ==
    /\ phase = "absent"
    /\ Render(open, NextIsOpen(<<TRUE>>), inputValue, currentSelectedItems,
              <<NextIsOpen(<<TRUE>>)>>)

\* onClick of the toggle button: handleOnMenuChange(!isOpen)
ToggleButtonOnClick ==
    /\ phase = "absent"
    /\ Render(open, NextIsOpen(<<~isOpen>>), inputValue, currentSelectedItems,
              <<NextIsOpen(<<~isOpen>>)>>)

\* onKeyDown of the input for one key, disabled being false; clearSelection
\* of Selection empties the selection and reports it through handleOnChange
InputOnKeyDownWith(key) ==
    /\ phase = "absent"
    /\ LET clears == key \in {"Delete", "Escape"}
           enter == IF key = "Enter" THEN <<NextIsOpen(<<TRUE>>)>> ELSE <<>>
           reopen == IF clears /\ isOpen THEN <<NextIsOpen(<<TRUE>>)>> ELSE <<>>
           tab == IF key = "Tab" THEN <<NextIsOpen(<<FALSE>>)>> ELSE <<>>
           calls == enter \o reopen \o tab
       IN  Render(open,
                  IF calls = <<>> THEN isOpen ELSE calls[Len(calls)],
                  IF clears THEN ClearedInputValue(key = "Escape") ELSE inputValue,
                  IF clears /\ ~isOpen THEN {} ELSE currentSelectedItems,
                  calls)

InputOnKeyDown == \E key \in InputKeys : InputOnKeyDownWith(key)

\* handleOnStateChange(changes) for one type; the highlighted index it sets
\* is not part of the model
HandleOnStateChangeWith(type) ==
    /\ phase = "absent"
    /\ LET calls == IF type = "keyDownArrowDown" /\ ~isOpen
                    THEN <<NextIsOpen(<<TRUE>>)>>
                    ELSE IF type = "keyDownEscape"
                         THEN <<NextIsOpen(<<FALSE>>)>>
                         ELSE <<>>
       IN  Render(open,
                  IF calls = <<>> THEN isOpen ELSE calls[1],
                  inputValue, currentSelectedItems, calls)

HandleOnStateChange == \E type \in StateChangeTypes : HandleOnStateChangeWith(type)

\* handleOnInputValueChange(inputValue, { type }) with a string
HandleOnInputValueChange ==
    /\ phase = "absent"
    /\ \E text \in InputTexts, type \in {"changeInput", "keyDownEscape"} :
          LET calls == IF type # "changeInput" THEN <<>>
                       ELSE IF text # <<>> /\ ~isOpen THEN <<NextIsOpen(<<TRUE>>)>>
                       ELSE IF text = <<>> /\ isOpen THEN <<NextIsOpen(<<FALSE>>)>>
                       ELSE <<>>
          IN  Render(open,
                     IF calls = <<>> THEN isOpen ELSE calls[1],
                     IF type = "changeInput" THEN text ELSE inputValue,
                     currentSelectedItems, calls)

\* handleOnOuterClick: Downshift reports an outer click of an open menu
HandleOnOuterClick ==
    /\ phase = "absent"
    /\ isOpen
    /\ Render(open, NextIsOpen(<<FALSE>>), inputValue, currentSelectedItems,
              <<NextIsOpen(<<FALSE>>)>>)

\* onBlur of the input: setInputValue('')
InputOnBlur ==
    /\ phase = "absent"
    /\ Render(open, isOpen, <<>>, currentSelectedItems, <<>>)

\* the clear button of the input, shown while inputValue is not empty:
\* clearInputValue()
ClearInputValue ==
    /\ phase = "absent"
    /\ inputValue # <<>>
    /\ Render(open, isOpen, ClearedInputValue(FALSE), currentSelectedItems, <<>>)

NextFMS ==
    \/ OpenPropChange
    \/ HandleOnChange
    \/ InputOnClick
    \/ ToggleButtonOnClick
    \/ InputOnKeyDown
    \/ HandleOnStateChange
    \/ HandleOnInputValueChange
    \/ HandleOnOuterClick
    \/ InputOnBlur
    \/ ClearInputValue

SpecFMS == InitFMS /\ [][NextFMS]_vars

----------------------------------------------------------------------------
(* FilterableMultiSelect: claims *)

\* C9: with selectionFeedback 'top-after-reopen' the items sorted to the
\* top are topItems; while the menu is closed topItems is the current
\* selection, and no step that leaves the menu open changes topItems.
C9_TopAfterReopen ==
    /\ [](/\ SortSelectedItems("top-after-reopen") = topItems
          /\ (~isOpen => topItems = currentSelectedItems))
    /\ [][isOpen /\ isOpen' => topItems' = topItems]_vars

\* C9 witness: a menu that started closed was opened with items on top,
\* and the selection changed since without changing them
C9_Witness ==
    /\ isOpen /\ ~open
    /\ topItems # {}
    /\ currentSelectedItems # topItems
    /\ currentSelectedItems # {}

\* C10, as claimed: every onMenuChange call of an event has an argument
\* other than the isOpen the menu had before the event, and the menu has
\* that state after it.
C10_OnlyOnTransition ==
    [][\A i \in 1..Len(onMenuChangeCalls') :
          /\ onMenuChangeCalls'[i] # isOpen
          /\ isOpen' = onMenuChangeCalls'[i]]_vars

\* C11: the first render has isOpen equal to the open prop; a render with
\* another open prop than the render before sets isOpen to the new prop;
\* a render with the same open prop keeps isOpen, or has the value the
\* event's last handleOnMenuChange asked for.
C11_OpenPropInitialises ==
    /\ isOpen = open
    /\ [][/\ open' # open => isOpen' = open'
          /\ open' = open /\ onMenuChangeCalls' = <<>> => isOpen' = isOpen
          /\ open' = open /\ onMenuChangeCalls' # <<>>
                => isOpen' = onMenuChangeCalls'[Len(onMenuChangeCalls')]]_vars

\* C11 witness: with the open prop true the menu was closed from inside,
\* and the render kept it closed
C11_Witness ==
    /\ open /\ prevOpen
    /\ ~isOpen
    /\ onMenuChangeCalls = <<FALSE>>

----------------------------------------------------------------------------
(* DOMTokenList.prototype.toggle *)

\* the class names toggled are 1..NumClasses
NumClasses == 4

ClassNames == 1..NumClasses

\* the `_random_class_...` name of the detection, a name of no list
RandomClass == 0

\* token lists: sequences of class names without duplicates
ClassLists ==
    {l \in UNION {[1..n -> ClassNames] : n \in 0..NumClasses} :
        \A i, j \in 1..Len(l) : l[i] = l[j] => i = j}

\* this.contains(name)
Contains(list, name) == \E i \in 1..Len(list) : list[i] = name

\* list without name, the other tokens in their order
Without(list, name) == SelectSeq(list, LAMBDA t : t # name)

\* origToggle.call(this, name): the toggle of a browser whose toggle takes
\* no force argument: it removes a token that is there and returns false,
\* appends one that is not and returns true
OrigToggle(list, name) ==
    IF Contains(list, name)
    THEN [list |-> Without(list, name), result |-> FALSE]
    ELSE [list |-> Append(list, name), result |-> TRUE]

\* missingNativeDOMTokenListToggleForce: toggle(randomClass, false) on the
\* classList of a new element leaves the class in it
MissingNativeDOMTokenListToggleForce ==
    Contains(OrigToggle(<<>>, RandomClass).list, RandomClass)

\* a toggle that always calls origToggle: C12 does not hold of it
ToggleDOMTokenListFlip(list, arguments) == OrigToggle(list, arguments[1])

\* toggleDOMTokenList(name, add) on the list, for arguments <<name>> or
\* <<name, add>> with a boolean add
ToggleDOMTokenList(list, arguments) ==
    IF Len(arguments) < 2 \/ Contains(list, arguments[1]) = ~arguments[2]
    THEN OrigToggle(list, arguments[1])
    ELSE [list |-> list, result |-> arguments[2]]

InitToggle ==
    /\ NoSlider
    /\ NoMultiSelect
    /\ classList \in ClassLists
    /\ lastArguments = <<>>
    /\ toggleResult = <<>>

\* classList.toggle(...arguments) where the polyfill is installed
ToggleCall(arguments) ==
    /\ MissingNativeDOMTokenListToggleForce
    /\ phase = "absent"
    /\ LET r == ToggleDOMTokenList(classList, arguments)
       IN  /\ classList' = r.list
           /\ toggleResult' = <<r.result>>
    /\ lastArguments' = arguments
    /\ UNCHANGED <<sliderVars, fmsVars>>

\* classList.toggle(name, add)
ToggleForce == \E name \in ClassNames, add \in BOOLEAN : ToggleCall(<<name, add>>)

\* classList.toggle(name)
ToggleName == \E name \in ClassNames : ToggleCall(<<name>>)

NextToggle ==
    \/ ToggleForce
    \/ ToggleName

SpecToggle == InitToggle /\ [][NextToggle]_vars

----------------------------------------------------------------------------
(* DOMTokenList.prototype.toggle: claims *)

\* C12: after toggle(name, force) with a boolean force the list contains
\* name iff force is true, the call returned force, the other tokens are
\* the same in the same order, and the same call again returns force and
\* leaves the list as it is; after toggle(name) the list contains name iff
\* it did not before, the call returned the new membership, and the other
\* tokens are the same in the same order.
C12_ToggleHonoursForce ==
    [][\A name \in ClassNames :
          /\ \A force \in BOOLEAN :
                (lastArguments' = <<name, force>> /\ ToggleCall(<<name, force>>))
                => /\ Contains(classList', name) = force
                   /\ toggleResult' = <<force>>
                   /\ Without(classList', name) = Without(classList, name)
                   /\ ToggleDOMTokenList(classList', <<name, force>>)
                        = [list |-> classList', result |-> force]
          /\ (lastArguments' = <<name>> /\ ToggleCall(<<name>>))
                => /\ Contains(classList', name) = ~Contains(classList, name)
                   /\ toggleResult' = <<Contains(classList', name)>>
                   /\ Without(classList', name) = Without(classList, name)]_vars

\* C12 witness: toggle(name, false) has returned false on a list that
\* keeps its other tokens
C12_Witness ==
    /\ Len(lastArguments) = 2
    /\ lastArguments[2] = FALSE
    /\ toggleResult = <<FALSE>>
    /\ Len(classList) = NumClasses - 1
    /\ ~Contains(classList, lastArguments[1])

============================================================================
